---- MODULE Spec2Model ----
(***************************************************************************)
(* semaroute: the routing decision engine (policies package), the provider *)
(* abstraction it queries and the health flag it reads; the chat           *)
(* completion handler that dispatches on a decision (ServerSpec); and the  *)
(* health monitor, whose probe goroutines write the health records and the *)
(* metrics (HealthSpec).  Smaller specifications take one situation each:  *)
(* a probe that hangs (HangSpec), routing beside the monitor               *)
(* (MonitoredSpec), the handler beside a forced check (FrameSpec), two     *)
(* requests routed at once (ConcurrentSpec), RemoveProvider beside the     *)
(* monitor (RemoveSpec), and a reader beside SetHealth (TornSpec).         *)
(*                                                                         *)
(* Numbers.  float64 values (costs, weights, scores, confidence) are exact *)
(* rationals <<n, d>> with d > 0 in lowest terms; rounding of the binary   *)
(* representation is not modelled.  time.Duration and time.Time are whole  *)
(* milliseconds.                                                           *)
(***************************************************************************)
EXTENDS Integers, Sequences, FiniteSets, TLC

VARIABLES
    policyType,           \* Config.RoutingPolicy.Type: which policy the server built
    providers,            \* keys of Server.providers, the map handed to DecideRoute
    kind,                 \* the Provider implementation behind each key
    healthy,              \* BaseProvider.health.Healthy of each provider
    maxLatencyThreshold,  \* CostBasedPolicy.maxLatencyThreshold
    costWeight,           \* CostBasedPolicy.costWeight
    latencyWeight,        \* CostBasedPolicy.latencyWeight
    healthWeight,         \* CostBasedPolicy.healthWeight
    primaryProvider,      \* FailoverPolicy.primaryProvider
    backupProviders,      \* FailoverPolicy.backupProviders
    failoverDelay,        \* FailoverPolicy.failoverDelay
    lastFailover,         \* FailoverPolicy.lastFailover
    metrics,              \* BasePolicy.metrics
    now,                  \* the clock read by time.Now()
    ret,                  \* what the most recent operation returned to its caller
    lastMarkAt,           \* history: when MarkFailover was last called on the primary
    resetSince,           \* history: SetPrimaryProvider was called since lastMarkAt
    resp,                 \* what handleChatCompletion answered to the most recent request
    primaryFailedAt,      \* history: when a request executed on the primary last failed
    healthInfo,           \* BaseProvider.health: Latency, LastCheck, Error of each provider
    hcMetrics,            \* HealthChecker.metrics: the ProviderMetrics of each provider
    metricsMutex,         \* HealthChecker.metricsMutex: the probe holding it, or NoHolder
    cycle,                \* each checkAllProviders call: its phase, start and snapshot
    probe,                \* each checkProvider goroutine of each cycle
    runPc,                \* where the goroutine of HealthChecker.run is
    stopChan,             \* HealthChecker.stopChan: "open" or "closed"
    wg,                   \* HealthChecker.wg: its counter
    stopPc,               \* where the caller of HealthChecker.Stop is
    panicked,             \* the process died of a panic
    cyclesBegun,          \* how many cycles each caller has begun (bounded)
    doneChecks,           \* history: completed probes of each provider, and successes
    startedLast,          \* history: the cycle whose probe of each provider started last
    latestOutcome,        \* history: what the probe that started last observed
    inflight,             \* each handler goroutine that is inside DecideRoute
    hcProviders,          \* keys of HealthChecker.providers
    removing              \* the name a RemoveProvider call is at work on, or ""

vars == <<policyType, providers, kind, healthy, maxLatencyThreshold, costWeight,
          latencyWeight, healthWeight, primaryProvider, backupProviders,
          failoverDelay, lastFailover, metrics, now, ret, lastMarkAt, resetSince,
          resp, primaryFailedAt, healthInfo, hcMetrics, metricsMutex, cycle, probe,
          runPc, stopChan, wg, stopPc, panicked, cyclesBegun, doneChecks,
          startedLast, latestOutcome, inflight, hcProviders, removing>>

srvVars == <<resp, primaryFailedAt, inflight>>
hcVars == <<healthInfo, hcMetrics, metricsMutex, cycle, probe, runPc, stopChan, wg,
            stopPc, panicked, cyclesBegun, doneChecks, startedLast, latestOutcome>>

costVars == <<maxLatencyThreshold, costWeight, latencyWeight, healthWeight>>
failoverVars == <<primaryProvider, backupProviders, failoverDelay, lastFailover>>
histVars == <<lastMarkAt, resetSince>>
fleetVars == <<policyType, providers, kind, hcProviders, removing>>

(***************************************************************************)
(* Bounds and units                                                        *)
(***************************************************************************)
Millisecond == 1
Second == 1000 * Millisecond

\* The clock advances in steps of TickStep, at most MaxTicks times.
MaxTicks == 3
TickStep == 15 * Second

\* time.Time{}: the zero time, which time.Now() never returns.
ZeroTime == 0 - 1

\* The keys of the server's provider map; "D" names no provider.
Names == {"A", "B", "C"}

(***************************************************************************)
(* float64 as exact rationals                                              *)
(***************************************************************************)
Abs(x) == IF x < 0 THEN 0 - x ELSE x

RECURSIVE GCD(_, _)
GCD(a, b) == IF b = 0 THEN a ELSE GCD(b, a % b)

\* n/d in lowest terms with a positive denominator (d # 0).
Rat(n, d) ==
    LET g == GCD(Abs(n), Abs(d))
        s == IF d < 0 THEN 0 - 1 ELSE 1
    IN  <<(s * n) \div g, (s * d) \div g>>

RZero == <<0, 1>>
ROne == <<1, 1>>
RAdd(a, b) == Rat(a[1] * b[2] + b[1] * a[2], a[2] * b[2])
RSub(a, b) == Rat(a[1] * b[2] - b[1] * a[2], a[2] * b[2])
RMul(a, b) == Rat(a[1] * b[1], a[2] * b[2])
RLess(a, b) == a[1] * b[2] < b[1] * a[2]
RLeq(a, b) == a[1] * b[2] <= b[1] * a[2]
RDiv(a, b) == Rat(a[1] * b[2], a[2] * b[1])

\* Two float64 values that are not rationals of the model's size are kept as
\* symbols, marked by a zero denominator: +Inf, and math.MaxFloat64, the
\* largest finite value.  The sum of two MaxFloat64 overflows to +Inf; a
\* finite value divided by +Inf is 0.  Quotients that would be NaN, overflow
\* or a subnormal are left undefined: no input of the model produces them.
PosInf == <<1, 0>>
MaxFloat64 == <<2, 0>>
IsRational(x) == x[2] # 0

FAdd(a, b) ==
    IF a = PosInf \/ b = PosInf THEN PosInf
    ELSE IF a = MaxFloat64 /\ b = MaxFloat64 THEN PosInf
    ELSE IF a = MaxFloat64 \/ b = MaxFloat64 THEN MaxFloat64
    ELSE RAdd(a, b)

\* x <= 0
FLeqZero(x) == IsRational(x) /\ x[1] <= 0

FDiv(a, b) ==
    CASE b = PosInf /\ a # PosInf -> RZero
      [] b = MaxFloat64 /\ a = MaxFloat64 -> ROne
      [] IsRational(a) /\ IsRational(b) /\ b # RZero -> RDiv(a, b)

(***************************************************************************)
(* Requests (models.ChatRequest: the fields routing reads)                 *)
(***************************************************************************)
Requests ==
    {[Model |-> "m1", Messages |-> <<"user">>],
     [Model |-> "m2", Messages |-> <<"user">>],
     [Model |-> "", Messages |-> <<"user">>],
     [Model |-> "m1", Messages |-> <<>>]}
ZeroRequest == [Model |-> "", Messages |-> <<>>]

(***************************************************************************)
(* Provider implementations.  The Provider interface leaves GetModels,     *)
(* GetCostEstimate and GetLatencyEstimate to the implementation, each with *)
(* an error result; a kind fixes what one implementation answers.          *)
(***************************************************************************)
Kind(ms, merr, cok, c, lok, l) ==
    [models |-> ms, modelsErr |-> merr,
     costOk |-> cok, cost |-> c, latencyOk |-> lok, latency |-> l]

\* Stub implementations, named by what sets them apart.
CheapSlower == Kind(<<"m1">>, FALSE, TRUE, Rat(1, 100), TRUE, 200 * Millisecond)
DearFaster == Kind(<<"m2", "m1">>, FALSE, TRUE, Rat(3, 100), TRUE, 100 * Millisecond)
TooSlow == Kind(<<"m1">>, FALSE, TRUE, Rat(1, 100), TRUE, 6 * Second)
NoCost == Kind(<<"m1">>, FALSE, FALSE, RZero, TRUE, 100 * Millisecond)
NoLatency == Kind(<<"m1", "m2">>, FALSE, TRUE, Rat(3, 100), FALSE, 0)
NoModels == Kind(<<>>, TRUE, TRUE, Rat(1, 100), TRUE, 100 * Millisecond)
\* Scores 0.066 under the default weights, as CheapSlower does.
MidTie == Kind(<<"m1", "m2">>, FALSE, TRUE, Rat(3, 100), TRUE, 160 * Millisecond)

\* The fleets the server may have been built with.  The failover policy reads
\* only GetModels, so one fleet serves it: B supports m1 alone, A and C both
\* models.
Fleets(type) ==
    IF type = "cost_based"
    THEN {[A |-> CheapSlower, B |-> DearFaster, C |-> MidTie],
          [A |-> TooSlow, B |-> NoLatency, C |-> NoModels],
          [A |-> CheapSlower, B |-> NoCost, C |-> NoModels]}
    ELSE {[n \in Names |-> IF n = "A" THEN DearFaster
                           ELSE IF n = "B" THEN CheapSlower ELSE MidTie]}

GetModels(p) == [ok |-> ~kind[p].modelsErr, models |-> kind[p].models]
GetCostEstimate(p, req) == [ok |-> kind[p].costOk, cost |-> kind[p].cost]
GetLatencyEstimate(p, req) == [ok |-> kind[p].latencyOk, latency |-> kind[p].latency]
IsHealthy(p) == healthy[p]

(***************************************************************************)
(* BasePolicy                                                              *)
(***************************************************************************)
\* RoutingDecision{}: the zero value returned beside an error.
ZeroDecision ==
    [ProviderName |-> "", Model |-> "", EstimatedCost |-> RZero,
     EstimatedLatency |-> 0, Confidence |-> RZero, Fallback |-> FALSE]

ValidateRequestModelOnly(req) ==
    IF req.Model = "" THEN "model is required" ELSE ""

\* The error ("" is nil).
ValidateRequest(req) ==
    IF req.Model = "" THEN "model is required"
    ELSE IF Len(req.Messages) = 0 THEN "at least one message is required"
    ELSE ""

providerSupportsModelAlways(p, model) == TRUE

providerSupportsModel(p, model) ==
    LET r == GetModels(p)
    IN  IF ~r.ok THEN FALSE
        ELSE \E i \in 1..Len(r.models) : r.models[i] = model

getHealthyProvidersAll(availableProviders) == availableProviders

getHealthyProviders(availableProviders) ==
    {name \in availableProviders : IsHealthy(name)}

NoMetrics == [set |-> FALSE, last_decision |-> ZeroDecision, last_success |-> FALSE,
              last_latency |-> 0]

UpdateMetrics(decision, success, latency) ==
    [set |-> TRUE, last_decision |-> decision, last_success |-> success,
     last_latency |-> latency]

\* What a DecideRoute call hands back, with the provider methods it invoked.
Return(op, req, err, decision, calls) ==
    [op |-> op, req |-> req, err |-> err, decision |-> decision, calls |-> calls,
     args |-> <<>>, before |-> <<>>]

\* What a setter hands back, kept with the arguments it was called with and
\* the fields it may write as they were before the call.
Called(op, err, args, before) ==
    [Return(op, ZeroRequest, err, ZeroDecision, {}) EXCEPT
        !.args = args, !.before = before]

NoReturn == Return("none", ZeroRequest, "", ZeroDecision, {})

\* The handler goroutines that may be inside DecideRoute at the same time.
MaxTasks == 2
Tasks == 1..MaxTasks

\* A handler goroutine that is not inside DecideRoute.
IdleTask == [pc |-> "idle", r |-> NoReturn]

ErrInvalid == "invalid request"
ErrNoHealthy == "no healthy providers available"
ErrNoSuitable == "no suitable providers found for model"
ErrNoAvailable == "no available providers for model"
ErrWeights == "weights must sum to a positive number"

(***************************************************************************)
(* CostBasedPolicy                                                         *)
(***************************************************************************)
DefaultMaxLatencyThreshold == 5 * Second
DefaultCostWeight == Rat(6, 10)
DefaultLatencyWeight == Rat(3, 10)
DefaultHealthWeight == Rat(1, 10)

\* Duration.Milliseconds(): the duration as a whole number of milliseconds.
Milliseconds(d) == d \div Millisecond

\* Range over a map visits its keys in an order the runtime picks.
Perms(S) ==
    {s \in [1..Cardinality(S) -> S] : \A i, j \in 1..Cardinality(S) : s[i] = s[j] => i = j}

Front(s) == SubSeq(s, 1, Len(s) - 1)
Last(s) == s[Len(s)]

latencyOfEstimate(name, req) == GetLatencyEstimate(name, req).latency

\* The latency DecideRoute works with: the estimate, or the ceiling when the
\* estimate failed.
latencyOf(name, req) ==
    LET l == GetLatencyEstimate(name, req)
    IN  IF l.ok THEN l.latency ELSE maxLatencyThreshold

tooSlowNever(latency) == FALSE

\* "Skip providers that are too slow".
tooSlow(latency) == latency > maxLatencyThreshold

totalScoreCostOnly(cost, latency) == RMul(cost, costWeight)

\* The composite score of a candidate.
totalScore(cost, latency) ==
    LET costScore == RMul(cost, costWeight)
        latencyScore == RMul(Rat(Milliseconds(latency), 1000), latencyWeight)
        healthScore == RZero
    IN  RAdd(RAdd(costScore, latencyScore), healthScore)

\* The scoring loop's conditions for appending a candidate.
scored(name, req) ==
    /\ providerSupportsModel(name, req.Model)
    /\ GetCostEstimate(name, req).ok
    /\ ~tooSlow(latencyOf(name, req))

providerScore(name, req) ==
    [name |-> name,
     score |-> totalScore(GetCostEstimate(name, req).cost, latencyOf(name, req)),
     cost |-> GetCostEstimate(name, req).cost,
     latency |-> latencyOf(name, req)]

\* The scores slice after the loop over healthyProviders, visited in `order`.
RECURSIVE scoreProviders(_, _)
scoreProviders(order, req) ==
    IF order = <<>> THEN <<>>
    ELSE LET before == scoreProviders(Front(order), req)
             name == Last(order)
         IN  IF scored(name, req) THEN Append(before, providerScore(name, req))
             ELSE before

\* The provider methods the loop invokes.
scoringCalls(healthyProviders, req) ==
    {<<name, "GetModels">> : name \in healthyProviders}
    \cup {<<name, "GetCostEstimate">> :
             name \in {n \in healthyProviders : providerSupportsModel(n, req.Model)}}
    \cup {<<name, "GetLatencyEstimate">> :
             name \in {n \in healthyProviders :
                          /\ providerSupportsModel(n, req.Model)
                          /\ GetCostEstimate(n, req).ok}}

lessFlipped(a, b) == RLess(b.score, a.score)

\* The comparison handed to sort.Slice.
less(a, b) == RLess(a.score, b.score)

\* sort.Slice on a short slice is an insertion sort: each element moves left
\* past the elements it is less than.
RECURSIVE insertLast(_, _)
insertLast(s, x) ==
    IF s = <<>> THEN <<x>>
    ELSE IF less(x, Last(s)) THEN Append(insertLast(Front(s), x), Last(s))
    ELSE Append(s, x)

RECURSIVE sortSlice(_)
sortSlice(s) ==
    IF s = <<>> THEN <<>>
    ELSE insertLast(sortSlice(Front(s)), Last(s))

confidenceOfFlat(scores) == Rat(8, 10)

\* "Calculate confidence based on score difference from next best".  A zero
\* best score makes the quotient +Inf, which the clamp turns into 1.0.
confidenceOf(scores) ==
    IF Len(scores) > 1
    THEN LET best == scores[1].score
             scoreDiff == RSub(scores[2].score, best)
         IN  IF RLess(RZero, scoreDiff)
             THEN IF best = RZero THEN ROne
                  ELSE LET q == RDiv(scoreDiff, best)
                           c == RAdd(Rat(8, 10), RMul(Rat(2, 10), q))
                       IN  IF RLess(ROne, c) THEN ROne ELSE c
             ELSE ROne
    ELSE ROne

CostBasedDecideRoute(req, availableProviders, order) ==
    IF ValidateRequest(req) # ""
    THEN Return("DecideRoute", req, ErrInvalid, ZeroDecision, {})
    ELSE
    LET healthyProviders == getHealthyProviders(availableProviders)
        healthCalls == {<<name, "IsHealthy">> : name \in availableProviders}
    IN  IF healthyProviders = {}
        THEN Return("DecideRoute", req, ErrNoHealthy, ZeroDecision, healthCalls)
        ELSE
        LET scores == scoreProviders(order, req)
            calls == healthCalls \cup scoringCalls(healthyProviders, req)
        IN  IF Len(scores) = 0
            THEN Return("DecideRoute", req, ErrNoSuitable, ZeroDecision, calls)
            ELSE
            LET sorted == sortSlice(scores)
                best == sorted[1]
                decision == [ProviderName |-> best.name,
                             Model |-> req.Model,
                             EstimatedCost |-> best.cost,
                             EstimatedLatency |-> best.latency,
                             Confidence |-> confidenceOf(sorted),
                             Fallback |-> FALSE]
            IN  Return("DecideRoute", req, "", decision, calls)

\* Inputs of SetWeights and SetMaxLatencyThreshold.
WeightInputs ==
    {<<Rat(6, 1), Rat(3, 1), Rat(1, 1)>>,
     <<Rat(1, 1), Rat(1, 1), RZero>>,
     <<RZero, RZero, RZero>>,
     <<Rat(1, 1), Rat(0 - 2, 1), RZero>>,
     <<Rat(27, 1), Rat(0 - 2, 1), RZero>>,
     <<MaxFloat64, MaxFloat64, MaxFloat64>>}
ThresholdInputs == {DefaultMaxLatencyThreshold, 150 * Millisecond}

(***************************************************************************)
(* FailoverPolicy                                                          *)
(***************************************************************************)
DefaultFailoverDelay == 30 * Second

shouldUsePrimary ==
    IF lastFailover = ZeroTime THEN TRUE
    ELSE now - lastFailover > failoverDelay

\* "exists && provider.IsHealthy()" and then providerSupportsModel.
qualifies(name, availableProviders, model) ==
    /\ name \in availableProviders
    /\ IsHealthy(name)
    /\ providerSupportsModel(name, model)

\* The provider methods invoked while testing one name.
testCalls(name, availableProviders) ==
    IF name \notin availableProviders THEN {}
    ELSE {<<name, "IsHealthy">>}
         \cup (IF IsHealthy(name) THEN {<<name, "GetModels">>} ELSE {})

tryBackupsLastFirst(i, req, availableProviders, calls) ==
    LET hits == {k \in i..Len(backupProviders) :
                    qualifies(backupProviders[k], availableProviders, req.Model)}
    IN  IF hits = {}
        THEN Return("DecideRoute", req, ErrNoAvailable, ZeroDecision, calls)
        ELSE Return("DecideRoute", req, "",
                    [ProviderName |-> backupProviders[CHOOSE k \in hits :
                                                        \A h \in hits : h <= k],
                     Model |-> req.Model,
                     EstimatedCost |-> RZero,
                     EstimatedLatency |-> 0,
                     Confidence |-> Rat(8, 10),
                     Fallback |-> TRUE],
                    calls)

\* "Try backup providers in order", from position i on.
RECURSIVE tryBackups(_, _, _, _)
tryBackups(i, req, availableProviders, calls) ==
    IF i > Len(backupProviders)
    THEN Return("DecideRoute", req, ErrNoAvailable, ZeroDecision, calls)
    ELSE LET backupName == backupProviders[i]
             seen == calls \cup testCalls(backupName, availableProviders)
         IN  IF qualifies(backupName, availableProviders, req.Model)
             THEN Return("DecideRoute", req, "",
                         [ProviderName |-> backupName,
                          Model |-> req.Model,
                          EstimatedCost |-> RZero,
                          EstimatedLatency |-> 0,
                          Confidence |-> Rat(8, 10),
                          Fallback |-> TRUE],
                         seen)
             ELSE tryBackups(i + 1, req, availableProviders, seen)

usePrimaryIfNeverFailed(req, availableProviders) ==
    /\ lastFailover = ZeroTime
    /\ qualifies(primaryProvider, availableProviders, req.Model)

\* The guards of the primary branch.
usePrimary(req, availableProviders) ==
    /\ shouldUsePrimary
    /\ qualifies(primaryProvider, availableProviders, req.Model)

FailoverDecideRoute(req, availableProviders) ==
    IF ValidateRequest(req) # ""
    THEN Return("DecideRoute", req, ErrInvalid, ZeroDecision, {})
    ELSE IF usePrimary(req, availableProviders)
    THEN Return("DecideRoute", req, "",
                [ProviderName |-> primaryProvider,
                 Model |-> req.Model,
                 EstimatedCost |-> RZero,
                 EstimatedLatency |-> 0,
                 Confidence |-> ROne,
                 Fallback |-> FALSE],
                testCalls(primaryProvider, availableProviders))
    ELSE tryBackups(1, req, availableProviders,
                    IF shouldUsePrimary
                    THEN testCalls(primaryProvider, availableProviders)
                    ELSE {})

\* MarkFailover's assignment to lastFailover.
markedLastFailoverAny(providerName) == now

markedLastFailover(providerName) ==
    IF providerName = primaryProvider THEN now ELSE lastFailover

\* Inputs of the failover policy's constructor and setters.
PrimaryInputs == {"A", "D"}
BackupInputs == {<<"B", "C">>, <<"A", "D">>}
DelayInputs == {DefaultFailoverDelay, 15 * Second}

(***************************************************************************)
(* Server.handleChatCompletion                                             *)
(***************************************************************************)
\* What the handler wrote to the client: the status, the provider named in
\* the answer, and the providers whose CreateChatCompletion it invoked, in
\* order.  priorPrimaryFailure is history: primaryFailedAt as the request
\* found it.
Response(status, provider, executed, prior) ==
    [status |-> status, provider |-> provider, executed |-> executed,
     priorPrimaryFailure |-> prior]

NoResponse == Response("none", "", <<>>, ZeroTime)

\* "Try to find another provider": the loop over s.providers, visited in
\* `order` from position i on, after the chosen provider failed.  `fails`
\* holds the providers whose CreateChatCompletion returns an error for this
\* request.  The result is the provider that answered ("" if none did) and
\* the providers tried.
RECURSIVE tryOthers(_, _, _, _, _)
tryOthers(order, i, chosen, fails, tried) ==
    IF i > Len(order) THEN [provider |-> "", tried |-> tried]
    ELSE LET name == order[i]
         IN  IF name # chosen /\ IsHealthy(name)
             THEN IF name \notin fails
                  THEN [provider |-> name, tried |-> Append(tried, name)]
                  ELSE tryOthers(order, i + 1, chosen, fails, Append(tried, name))
             ELSE tryOthers(order, i + 1, chosen, fails, tried)

dispatchDespiteError(r, stream, fails, order, prior) ==
    LET first == CHOOSE p \in providers : TRUE
    IN  Response("StatusOK", first, <<first>>, prior)

\* The handler from the routing decision r on.
dispatch(r, stream, fails, order, prior) ==
    IF r.err # ""
    THEN Response("StatusServiceUnavailable: Routing failed", "", <<>>, prior)
    ELSE
    LET chosen == r.decision.ProviderName
    IN  IF chosen \notin providers
        THEN Response("StatusServiceUnavailable: Provider not available", "", <<>>, prior)
        ELSE IF stream
        THEN Response("StatusNotImplemented", "", <<>>, prior)
        ELSE IF chosen \notin fails
        THEN Response("StatusOK", chosen, <<chosen>>, prior)
        ELSE IF ~r.decision.Fallback
        THEN Response("StatusServiceUnavailable: All providers failed", "", <<chosen>>, prior)
        ELSE
        LET other == tryOthers(order, 1, chosen, fails, <<chosen>>)
        IN  IF other.provider # ""
            THEN Response("StatusOK", other.provider, other.tried, prior)
            ELSE Response("StatusServiceUnavailable: All providers failed", "",
                          other.tried, prior)

\* The policy the server was built with decides the route.
DecideRoute(req, availableProviders, order) ==
    IF policyType = "cost_based"
    THEN CostBasedDecideRoute(req, availableProviders, order)
    ELSE FailoverDecideRoute(req, availableProviders)

(***************************************************************************)
(* HealthChecker: data                                                     *)
(***************************************************************************)
\* The callers of checkAllProviders: the run loop, and a handler serving
\* ForceHealthCheck.
Cycles == {"timer", "force"}

\* How many cycles the run loop and the ForceHealthCheck handler begin, and
\* how many checkProvider goroutines are spawned in all.
MaxTimerCycles == 3
MaxForceCalls == 1
MaxProbes == 4

\* &ProviderMetrics{LastCheck: time.Now()}, as AddProvider stores it.
NewProviderMetrics(t) ==
    [TotalChecks |-> 0, SuccessfulChecks |-> 0, FailedChecks |-> 0,
     LastCheck |-> t, LastLatency |-> 0, AverageLatency |-> 0, Uptime |-> RZero]

NoProbe == [pc |-> "none", start |-> 0, ok |-> FALSE, latency |-> 0,
            loaded |-> NewProviderMetrics(0)]

IdleCycle == [pc |-> "idle", startedAt |-> 0, snapshot |-> {}, allOk |-> TRUE]

NoHolder == <<>>

mutexFreeAlways(mu) == TRUE

\* metricsMutex.Lock() goes through when nobody holds the mutex.
mutexFree(mu) == mu = NoHolder

\* err.Error() of a failed GetModels.
ProbeError == "get models failed"

countedSuccessOnly(m, loaded, ok, latency, t) ==
    IF ok
    THEN [m EXCEPT !.TotalChecks = loaded.TotalChecks + 1,
                   !.LastCheck = t,
                   !.LastLatency = latency,
                   !.SuccessfulChecks = loaded.SuccessfulChecks + 1]
    ELSE m

\* checkProvider's writes to the counters: "TotalChecks++" and its
\* neighbours, on the values the goroutine read after taking the lock.
counted(m, loaded, ok, latency, t) ==
    [m EXCEPT !.TotalChecks = loaded.TotalChecks + 1,
              !.LastCheck = t,
              !.LastLatency = latency,
              !.SuccessfulChecks = loaded.SuccessfulChecks + (IF ok THEN 1 ELSE 0),
              !.FailedChecks = loaded.FailedChecks + (IF ok THEN 0 ELSE 1)]

uptimeStale(m) == m.Uptime

\* "Calculate uptime percentage".
uptimeOf(m) ==
    IF m.TotalChecks > 0 THEN Rat(m.SuccessfulChecks * 100, m.TotalChecks)
    ELSE m.Uptime

\* "Update average latency": time.Duration(avg*(1-alpha) + latency*alpha)
\* with alpha = 0.1, cut to a whole number of the model's time unit.
averageOf(m, latency) ==
    IF m.SuccessfulChecks > 0
    THEN IF m.AverageLatency = 0 THEN latency
         ELSE (m.AverageLatency * 9 + latency) \div 10
    ELSE m.AverageLatency

\* "metrics := hc.metrics[name]", and the fresh &ProviderMetrics{} that
\* checkProvider makes when the table has no entry for the name.
loadMetrics(table, name) ==
    IF name \in DOMAIN table THEN table[name] ELSE NewProviderMetrics(ZeroTime)

\* "hc.metrics[name] = metrics" and the writes through that pointer.
storeMetrics(table, name, m) ==
    [q \in DOMAIN table \cup {name} |-> IF q = name THEN m ELSE table[q]]

\* The state of a HealthChecker after NewHealthChecker and the AddProvider
\* calls of NewServer.
HealthCheckerInit ==
    /\ healthInfo = [p \in providers |-> [Latency |-> 0, LastCheck |-> now, Error |-> ""]]
    /\ hcMetrics = [p \in providers |-> NewProviderMetrics(now)]
    /\ metricsMutex = NoHolder
    /\ cycle = [c \in Cycles |-> IdleCycle]
    /\ probe = [c \in Cycles |-> [p \in providers |-> NoProbe]]
    /\ runPc = "notStarted"
    /\ stopChan = "open"
    /\ wg = 0
    /\ stopPc = "idle"
    /\ panicked = FALSE
    /\ cyclesBegun = [c \in Cycles |-> 0]
    /\ hcProviders = providers
    /\ removing = ""
    /\ doneChecks = [p \in providers |-> [k |-> 0, s |-> 0]]
    /\ startedLast = [p \in providers |-> "none"]
    /\ latestOutcome = [p \in providers |-> [ok |-> TRUE, latency |-> 0, err |-> ""]]

(***************************************************************************)
(* The state after construction: NewServer builds the providers (healthy)  *)
(* and one routing policy.                                                 *)
(***************************************************************************)
Init ==
    /\ policyType \in {"cost_based", "failover"}
    /\ providers = Names
    /\ kind \in Fleets(policyType)
    /\ healthy = [p \in providers |-> TRUE]
    /\ maxLatencyThreshold = DefaultMaxLatencyThreshold
    /\ costWeight = DefaultCostWeight
    /\ latencyWeight = DefaultLatencyWeight
    /\ healthWeight = DefaultHealthWeight
    /\ primaryProvider \in (IF policyType = "failover" THEN PrimaryInputs ELSE {""})
    /\ backupProviders \in (IF policyType = "failover" THEN BackupInputs ELSE {<<>>})
    /\ failoverDelay = DefaultFailoverDelay
    /\ lastFailover = ZeroTime
    /\ metrics = NoMetrics
    /\ now = 0
    /\ ret = NoReturn
    /\ lastMarkAt = ZeroTime
    /\ resetSince = FALSE
    /\ resp = NoResponse
    /\ primaryFailedAt = ZeroTime
    /\ inflight = [t \in Tasks |-> IdleTask]
    /\ HealthCheckerInit

(***************************************************************************)
(* Operations                                                              *)
(***************************************************************************)
\* CostBasedPolicy.DecideRoute, with its UpdateMetrics on success.
RouteCostBased ==
    /\ policyType = "cost_based"
    /\ \E req \in Requests, order \in Perms(getHealthyProviders(providers)) :
          LET r == CostBasedDecideRoute(req, providers, order)
          IN  /\ ret' = r
              /\ metrics' = IF r.err = "" THEN UpdateMetrics(r.decision, TRUE, 0)
                            ELSE metrics
    /\ UNCHANGED <<srvVars, hcVars, fleetVars, healthy, costVars, failoverVars, now, histVars>>

\* FailoverPolicy.DecideRoute, with its UpdateMetrics on success.
RouteFailover ==
    /\ policyType = "failover"
    /\ \E req \in Requests :
          LET r == FailoverDecideRoute(req, providers)
          IN  /\ ret' = r
              /\ metrics' = IF r.err = "" THEN UpdateMetrics(r.decision, TRUE, 0)
                            ELSE metrics
    /\ UNCHANGED <<srvVars, hcVars, fleetVars, healthy, costVars, failoverVars, now, histVars>>

\* BaseProvider.SetHealth, as the health checker calls it after a probe, in
\* what the policies and the handler read of it: the Healthy flag.  The other
\* fields of the record are written in the health checker's own steps below.
SetHealth ==
    /\ \E p \in providers, h \in BOOLEAN :
          healthy' = [healthy EXCEPT ![p] = h]
    /\ ret' = NoReturn
    /\ resp' = NoResponse
    /\ UNCHANGED <<primaryFailedAt, inflight, hcVars, fleetVars, costVars, failoverVars, metrics,
                   now, histVars>>

\* CostBasedPolicy.SetWeights.
SetWeights ==
    /\ policyType = "cost_based"
    /\ \E w \in WeightInputs :
          LET cost == w[1]
              latency == w[2]
              health == w[3]
              total == FAdd(FAdd(cost, latency), health)
              before == <<costWeight, latencyWeight, healthWeight>>
          IN  IF FLeqZero(total)
              THEN /\ ret' = Called("SetWeights", ErrWeights, w, before)
                   /\ UNCHANGED <<costWeight, latencyWeight, healthWeight>>
              ELSE /\ costWeight' = FDiv(cost, total)
                   /\ latencyWeight' = FDiv(latency, total)
                   /\ healthWeight' = FDiv(health, total)
                   /\ ret' = Called("SetWeights", "", w, before)
    /\ UNCHANGED <<srvVars, hcVars, fleetVars, healthy, maxLatencyThreshold, failoverVars, metrics,
                   now, histVars>>

\* CostBasedPolicy.SetMaxLatencyThreshold.
SetMaxLatencyThreshold ==
    /\ policyType = "cost_based"
    /\ \E threshold \in ThresholdInputs : maxLatencyThreshold' = threshold
    /\ ret' = NoReturn
    /\ UNCHANGED <<srvVars, hcVars, fleetVars, healthy, costWeight, latencyWeight, healthWeight,
                   failoverVars, metrics, now, histVars>>

\* FailoverPolicy.MarkFailover.
MarkFailover ==
    /\ policyType = "failover"
    /\ \E providerName \in Names \cup {"D"} :
          /\ lastFailover' = markedLastFailover(providerName)
          /\ lastMarkAt' = IF providerName = primaryProvider THEN now ELSE lastMarkAt
          /\ resetSince' = IF providerName = primaryProvider THEN FALSE ELSE resetSince
          /\ ret' = Called("MarkFailover", "", <<providerName>>,
                           [lastFailover |-> lastFailover,
                            shouldUsePrimary |-> shouldUsePrimary])
    /\ UNCHANGED <<srvVars, hcVars, fleetVars, healthy, costVars, primaryProvider, backupProviders,
                   failoverDelay, metrics, now>>

\* FailoverPolicy.SetFailoverDelay.
SetFailoverDelay ==
    /\ policyType = "failover"
    /\ \E delay \in DelayInputs : failoverDelay' = delay
    /\ ret' = NoReturn
    /\ UNCHANGED <<srvVars, hcVars, fleetVars, healthy, costVars, primaryProvider, backupProviders,
                   lastFailover, metrics, now, histVars>>

\* FailoverPolicy.SetPrimaryProvider: also resets the failover timer.
SetPrimaryProvider ==
    /\ policyType = "failover"
    /\ \E providerName \in PrimaryInputs : primaryProvider' = providerName
    /\ lastFailover' = ZeroTime
    /\ resetSince' = TRUE
    /\ ret' = NoReturn
    /\ UNCHANGED <<srvVars, hcVars, fleetVars, healthy, costVars, backupProviders, failoverDelay,
                   metrics, now, lastMarkAt>>

\* FailoverPolicy.SetBackupProviders.
SetBackupProviders ==
    /\ policyType = "failover"
    /\ \E backups \in BackupInputs : backupProviders' = backups
    /\ ret' = NoReturn
    /\ UNCHANGED <<srvVars, hcVars, fleetVars, healthy, costVars, primaryProvider, failoverDelay,
                   lastFailover, metrics, now, histVars>>

\* Time passes.  Of the two policies only the failover policy reads the
\* clock, so it is advanced only for a server built with that policy.
Tick ==
    /\ policyType = "failover"
    /\ now + TickStep <= MaxTicks * TickStep
    /\ now' = now + TickStep
    /\ ret' = NoReturn
    /\ resp' = NoResponse
    /\ UNCHANGED <<primaryFailedAt, inflight, hcVars, fleetVars, healthy, costVars, failoverVars,
                   metrics, histVars>>

Next ==
    \/ RouteCostBased
    \/ RouteFailover
    \/ SetHealth
    \/ SetWeights
    \/ SetMaxLatencyThreshold
    \/ MarkFailover
    \/ SetFailoverDelay
    \/ SetPrimaryProvider
    \/ SetBackupProviders
    \/ Tick

Spec == Init /\ [][Next]_vars

(***************************************************************************)
(* Properties.  ret is cleared by every step that is not a DecideRoute     *)
(* call, so wherever ret holds a DecideRoute result the other variables    *)
(* are those the call read.  The predicates below state the conditions of  *)
(* the properties from the providers' answers; they do not go through the  *)
(* policies' helpers.                                                      *)
(***************************************************************************)
Routed == ret.op = "DecideRoute"
Decided == Routed /\ ret.err = ""
Failed == Routed /\ ret.err # ""
ValidReq == ret.req.Model # "" /\ Len(ret.req.Messages) > 0
Chosen == ret.decision.ProviderName

Supports(p, model) ==
    /\ ~kind[p].modelsErr
    /\ \E i \in DOMAIN kind[p].models : kind[p].models[i] = model

Candidate(p, model) == p \in providers /\ healthy[p] /\ Supports(p, model)

ExceedsCeiling(p) == kind[p].latencyOk /\ kind[p].latency > maxLatencyThreshold

Survivor(p, model) ==
    /\ Candidate(p, model)
    /\ kind[p].costOk
    /\ ~ExceedsCeiling(p)

LatencySeconds(p) ==
    Rat(IF kind[p].latencyOk THEN kind[p].latency ELSE maxLatencyThreshold, 1000)

CompositeScore(p) ==
    RAdd(RMul(kind[p].cost, costWeight), RMul(LatencySeconds(p), latencyWeight))

\* C1: a decision of either strategy names a key of the provider map, that
\* provider is healthy, its model list holds the request's model, and the
\* decision's model is the request's model.
C1_DecisionNamesHealthySupportingProvider ==
    Decided =>
        /\ Chosen \in providers
        /\ healthy[Chosen]
        /\ Supports(Chosen, ret.req.Model)
        /\ ret.decision.Model = ret.req.Model

C1_Witness ==
    /\ Decided
    /\ \E p \in providers : ~healthy[p]
    /\ \E p \in providers : healthy[p] /\ ~Supports(p, ret.req.Model)

\* C2: a request with an empty model or no messages is answered with the
\* invalid-request error, no decision, and no provider method invoked.
C2_InvalidRequestTouchesNoProvider ==
    (Routed /\ ~ValidReq) =>
        /\ ret.err = ErrInvalid
        /\ ret.decision = ZeroDecision
        /\ ret.calls = {}

C2_Witness ==
    /\ Routed
    /\ ret.req.Model # ""
    /\ Len(ret.req.Messages) = 0
    /\ ret.err = ErrInvalid
    /\ \E p \in providers : Candidate(p, ret.req.Model)

\* C3: a valid request for which no provider is both healthy and supporting
\* the model fails with an error and no decision.
C3_NoCandidateFails ==
    (Routed /\ ValidReq /\ ~\E p \in providers : Candidate(p, ret.req.Model)) =>
        /\ ret.err # ""
        /\ ret.decision = ZeroDecision

C3_Witness ==
    /\ Failed
    /\ ValidReq
    /\ ~\E p \in providers : Candidate(p, ret.req.Model)
    /\ \E p \in providers : healthy[p]
    /\ \E p \in providers : Supports(p, ret.req.Model)

\* C4: the provider the cost-based strategy chooses has a composite score no
\* greater than that of any surviving candidate.
C4_ChosenHasLowestScore ==
    (Decided /\ policyType = "cost_based") =>
        \A q \in providers :
            Survivor(q, ret.req.Model) => RLeq(CompositeScore(Chosen), CompositeScore(q))

C4_Witness ==
    /\ Decided
    /\ policyType = "cost_based"
    /\ \E q \in providers :
          /\ Survivor(q, ret.req.Model)
          /\ RLess(CompositeScore(Chosen), CompositeScore(q))
    /\ Cardinality({q \in providers : Survivor(q, ret.req.Model)}) = 3

\* The names in the scores slice DecideRoute would build for req.
SurvivingSet(req) ==
    LET order == CHOOSE o \in Perms(getHealthyProviders(providers)) : TRUE
        scores == scoreProviders(order, req)
    IN  {scores[i].name : i \in DOMAIN scores}

\* C5: no provider whose latency estimate exceeds the ceiling is in the
\* surviving set or is returned by the cost-based strategy.
C5_NoProviderOverCeiling ==
    policyType = "cost_based" =>
        /\ \A req \in Requests : \A p \in SurvivingSet(req) : ~ExceedsCeiling(p)
        /\ Decided =>
              /\ ~ExceedsCeiling(Chosen)
              /\ ret.decision.EstimatedLatency <= maxLatencyThreshold

C5_Witness ==
    /\ Decided
    /\ policyType = "cost_based"
    /\ maxLatencyThreshold # DefaultMaxLatencyThreshold
    /\ \E p \in providers :
          /\ Candidate(p, ret.req.Model)
          /\ kind[p].costOk
          /\ ExceedsCeiling(p)
          /\ kind[p].latency <= DefaultMaxLatencyThreshold

OnlyCandidate(p, model) ==
    /\ Candidate(p, model)
    /\ \A q \in providers : Candidate(q, model) => q = p

\* C6 as stated: whenever exactly one provider is healthy and supports the
\* model, the cost-based strategy chooses it with confidence 1.0.
C6_Original_OnlyCandidateChosen ==
    (Routed /\ policyType = "cost_based" /\ ValidReq) =>
        \A p \in providers :
            OnlyCandidate(p, ret.req.Model) =>
                /\ Decided
                /\ Chosen = p
                /\ ret.decision.Confidence = ROne

\* C6 as amended: whenever exactly one provider is healthy and supports the
\* model, and its cost estimate is available and its latency estimate does
\* not exceed the ceiling, the cost-based strategy chooses it with confidence
\* 1.0; when its cost estimate fails or its latency exceeds the ceiling the
\* call fails with the no-suitable-providers error.
C6_OnlySurvivingCandidateChosen ==
    (Routed /\ policyType = "cost_based" /\ ValidReq) =>
        \A p \in providers :
            OnlyCandidate(p, ret.req.Model) =>
                IF Survivor(p, ret.req.Model)
                THEN /\ Decided
                     /\ Chosen = p
                     /\ ret.decision.Confidence = ROne
                ELSE /\ ret.err = ErrNoSuitable
                     /\ ret.decision = ZeroDecision

C6_Witness ==
    /\ Decided
    /\ policyType = "cost_based"
    /\ OnlyCandidate(Chosen, ret.req.Model)
    /\ ret.decision.Confidence = ROne
    /\ \E q \in providers : ~healthy[q] /\ Supports(q, ret.req.Model)

\* The scenario of C7: A (cost 0.01, latency 200ms) and B (cost 0.03, latency
\* 100ms) are the healthy providers supporting the model, default weights,
\* ceiling 5s.
C7_Scenario ==
    /\ Routed
    /\ policyType = "cost_based"
    /\ ret.req = [Model |-> "m1", Messages |-> <<"user">>]
    /\ kind["A"] = CheapSlower
    /\ kind["B"] = DearFaster
    /\ {p \in providers : Candidate(p, "m1")} = {"A", "B"}
    /\ costWeight = Rat(6, 10)
    /\ latencyWeight = Rat(3, 10)
    /\ maxLatencyThreshold = 5 * Second

Qualifies(name, model) == name \in providers /\ Candidate(name, model)

\* C8: with shouldUsePrimary() true and the primary present, healthy and
\* supporting the model, the failover strategy names the primary with
\* confidence 1.0 and fallback=false, whatever the backups are.
C8_PrimaryChosenWhenUsable ==
    (Routed /\ policyType = "failover" /\ ValidReq
       /\ shouldUsePrimary /\ Qualifies(primaryProvider, ret.req.Model)) =>
        /\ Decided
        /\ Chosen = primaryProvider
        /\ ret.decision.Confidence = ROne
        /\ ~ret.decision.Fallback

C8_Witness ==
    /\ Decided
    /\ policyType = "failover"
    /\ Chosen = primaryProvider
    /\ ~ret.decision.Fallback
    /\ lastFailover # ZeroTime
    /\ \E i \in DOMAIN backupProviders :
          /\ backupProviders[i] # primaryProvider
          /\ Qualifies(backupProviders[i], ret.req.Model)

PrimaryTaken == shouldUsePrimary /\ Qualifies(primaryProvider, ret.req.Model)

\* C9: when the primary is not chosen, the failover strategy names the first
\* entry of the backup list that is present, healthy and supports the model,
\* with confidence 0.8 and fallback=true, and fails when there is none.
C9_FirstQualifyingBackup ==
    (Routed /\ policyType = "failover" /\ ValidReq /\ ~PrimaryTaken) =>
        IF \E i \in DOMAIN backupProviders : Qualifies(backupProviders[i], ret.req.Model)
        THEN /\ Decided
             /\ ret.decision.Confidence = Rat(8, 10)
             /\ ret.decision.Fallback
             /\ \E i \in DOMAIN backupProviders :
                   /\ backupProviders[i] = Chosen
                   /\ Qualifies(backupProviders[i], ret.req.Model)
                   /\ \A j \in 1..(i - 1) : ~Qualifies(backupProviders[j], ret.req.Model)
        ELSE Failed

C9_Witness ==
    /\ Decided
    /\ policyType = "failover"
    /\ primaryProvider \in providers
    /\ ~healthy[primaryProvider]
    /\ Len(backupProviders) = 2
    /\ backupProviders[1] # backupProviders[2]
    /\ Qualifies(backupProviders[1], ret.req.Model)
    /\ Qualifies(backupProviders[2], ret.req.Model)
    /\ Chosen = backupProviders[1]
    /\ ret.decision.Fallback
    /\ ret.decision.Confidence = Rat(8, 10)

\* Time since MarkFailover was last called on the primary.
SinceMark == now - lastMarkAt

\* C10 as stated: shouldUsePrimary() is true while MarkFailover was never
\* called on the primary; after such a call it is false until the cool-down
\* has elapsed since the call, and true once it has.
C10_Original_CoolDown ==
    /\ lastMarkAt = ZeroTime => shouldUsePrimary
    /\ (lastMarkAt # ZeroTime /\ SinceMark < failoverDelay) => ~shouldUsePrimary
    /\ (lastMarkAt # ZeroTime /\ SinceMark > failoverDelay) => shouldUsePrimary

\* C10 as amended: the same, unless SetPrimaryProvider has been called since
\* the last MarkFailover on the primary; SetPrimaryProvider clears the
\* recorded failover, and shouldUsePrimary() is true from then on until the
\* next MarkFailover on the primary.
C10_CoolDownUnlessReset ==
    /\ (lastMarkAt = ZeroTime \/ resetSince) => shouldUsePrimary
    /\ (lastMarkAt # ZeroTime /\ ~resetSince /\ SinceMark < failoverDelay)
          => ~shouldUsePrimary
    /\ (lastMarkAt # ZeroTime /\ ~resetSince /\ SinceMark > failoverDelay)
          => shouldUsePrimary

C10_Witness ==
    /\ policyType = "failover"
    /\ lastMarkAt # ZeroTime
    /\ ~resetSince
    /\ failoverDelay = DefaultFailoverDelay
    /\ SinceMark > failoverDelay
    /\ shouldUsePrimary

(***************************************************************************)
(* Setters.  After MarkFailover and SetWeights ret holds the arguments of  *)
(* the call and the fields as they were before it.                         *)
(***************************************************************************)
MarkedOther == ret.op = "MarkFailover" /\ ret.args[1] # primaryProvider

\* C11: MarkFailover with a name other than the primary leaves lastFailover
\* as it was, so shouldUsePrimary() answers after the call what it answered
\* before it.
C11_MarkFailoverOfOtherNameKeepsTimer ==
    MarkedOther =>
        /\ lastFailover = ret.before.lastFailover
        /\ shouldUsePrimary = ret.before.shouldUsePrimary

C11_Witness ==
    /\ MarkedOther
    /\ \E i \in DOMAIN backupProviders : backupProviders[i] = ret.args[1]
    /\ lastFailover # ZeroTime
    /\ now > lastFailover
    /\ ~shouldUsePrimary

WeightsSet == ret.op = "SetWeights"
Positive(x) == x = PosInf \/ x = MaxFloat64 \/ (IsRational(x) /\ x[1] > 0)
AllRational(args) == \A i \in DOMAIN args : IsRational(args[i])
StoredWeights == <<costWeight, latencyWeight, healthWeight>>
StoredSum == RAdd(RAdd(costWeight, latencyWeight), healthWeight)

\* The sum of three rational arguments, in exact arithmetic.
ExactSum(args) == RAdd(RAdd(args[1], args[2]), args[3])

\* C13 as stated: for every triple of positive weights SetWeights succeeds,
\* the stored weights sum to 1, and each stored weight is its input divided
\* by the sum of the inputs.
C13_PositiveWeightsNormalized ==
    (WeightsSet /\ \A i \in 1..3 : Positive(ret.args[i])) =>
        /\ ret.err = ""
        /\ StoredSum = ROne
        /\ AllRational(ret.args) =>
              \A i \in 1..3 :
                 StoredWeights[i] = RDiv(ret.args[i], ExactSum(ret.args))

\* The raw sum of the arguments is <= 0 (MaxFloat64 is positive and far
\* larger than any rational of the model).
RawSumNotPositive(args) ==
    IF AllRational(args) THEN RLeq(ExactSum(args), RZero)
    ELSE ~\E i \in DOMAIN args : Positive(args[i])

\* C14 as stated: SetWeights rejects exactly the updates whose raw sum is
\* <= 0; a rejected update returns an error and leaves the three weights as
\* they were; after an accepted update the weights sum to 1.
C14_RejectIffSumNotPositive ==
    WeightsSet =>
        /\ (ret.err # "") <=> RawSumNotPositive(ret.args)
        /\ ret.err # "" => StoredWeights = ret.before
        /\ ret.err = "" => StoredSum = ROne

\* C15 as stated: the confidence of every decision lies in [0, 1].
C15_ConfidenceInUnitInterval ==
    Decided =>
        /\ RLeq(RZero, ret.decision.Confidence)
        /\ RLeq(ret.decision.Confidence, ROne)

(***************************************************************************)
(* The running server: requests arrive at handleChatCompletion while the   *)
(* health checker updates the providers' health and time passes.  No       *)
(* handler calls a setter of the policy.                                   *)
(***************************************************************************)
\* The orders in which the handler's fallback loop may visit s.providers.
FallbackOrders(r, fails) ==
    IF r.err = "" /\ r.decision.Fallback /\ r.decision.ProviderName \in fails
    THEN Perms(providers)
    ELSE {<<>>}

\* handleChatCompletion for a body that does not decode.
HandleUndecodable ==
    /\ resp' = Response("StatusBadRequest", "", <<>>, primaryFailedAt)
    /\ ret' = NoReturn
    /\ UNCHANGED <<hcVars, fleetVars, healthy, costVars, failoverVars, metrics, now,
                   histVars, primaryFailedAt, inflight>>

RecordProviderErrorMarksUnhealthy(h, name) == [h EXCEPT ![name] = FALSE]

\* s.metrics.RecordProviderError and s.metrics.RecordProviderHealth write
\* the server's counters and gauges; the providers' own health flags, h,
\* are not among them.
RecordProviderError(h, name) == h
RecordProviderHealth(h, name, value) == h

\* The health flags when the handler has answered with rp.
flagsAfter(r, stream, fails, rp) ==
    LET chosen == r.decision.ProviderName
        failed == r.err = "" /\ chosen \in providers /\ ~stream /\ chosen \in fails
        h == IF failed THEN RecordProviderError(healthy, chosen) ELSE healthy
    IN  IF rp.status = "StatusOK" THEN RecordProviderHealth(h, rp.provider, TRUE)
        ELSE h

\* handleChatCompletion for a decoded request: the routing decision, then
\* the execution on the chosen provider and, for a fallback decision, on
\* the others.
HandleChatCompletion ==
    /\ \E req \in Requests, stream \in BOOLEAN, fails \in SUBSET providers,
          order \in (IF policyType = "cost_based"
                     THEN Perms(getHealthyProviders(providers)) ELSE {<<>>}) :
          LET r == DecideRoute(req, providers, order)
          IN  /\ ret' = r
              /\ metrics' = IF r.err = "" THEN UpdateMetrics(r.decision, TRUE, 0)
                            ELSE metrics
              /\ \E others \in FallbackOrders(r, fails) :
                    LET rp == dispatch(r, stream, fails, others, primaryFailedAt)
                    IN  /\ resp' = rp
                        /\ healthy' = flagsAfter(r, stream, fails, rp)
              /\ primaryFailedAt' =
                    IF /\ policyType = "failover"
                       /\ r.err = ""
                       /\ ~stream
                       /\ r.decision.ProviderName = primaryProvider
                       /\ primaryProvider \in fails
                    THEN now ELSE primaryFailedAt
    /\ UNCHANGED <<hcVars, fleetVars, costVars, failoverVars, now, histVars, inflight>>

ServerNext ==
    \/ HandleUndecodable
    \/ HandleChatCompletion
    \/ SetHealth
    \/ Tick

ServerSpec == Init /\ [][ServerNext]_vars

Handled == resp.status # "none" /\ Routed

\* C12 as stated: under the failover policy, once a request executed on the
\* primary has failed, the DecideRoute calls of requests that arrive within
\* the cool-down window after that failure do not select the primary.
C12_PrimaryAvoidedAfterFailedRequest ==
    (/\ Handled
     /\ policyType = "failover"
     /\ resp.priorPrimaryFailure # ZeroTime
     /\ now - resp.priorPrimaryFailure < failoverDelay
     /\ Decided) => Chosen # primaryProvider

(***************************************************************************)
(* HealthChecker: the run loop, the probe cycles and Stop.  A server with  *)
(* one or two providers and the failover policy; the requests are left     *)
(* out.                                                                    *)
(***************************************************************************)
HealthInit ==
    /\ policyType = "failover"
    /\ providers \in {{"A"}, {"A", "B"}}
    /\ kind = [p \in providers |-> DearFaster]
    /\ healthy = [p \in providers |-> TRUE]
    /\ maxLatencyThreshold = DefaultMaxLatencyThreshold
    /\ costWeight = DefaultCostWeight
    /\ latencyWeight = DefaultLatencyWeight
    /\ healthWeight = DefaultHealthWeight
    /\ primaryProvider = "A"
    /\ backupProviders = <<"B">>
    /\ failoverDelay = DefaultFailoverDelay
    /\ lastFailover = ZeroTime
    /\ metrics = NoMetrics
    /\ now = (MaxTicks - 1) * TickStep
    /\ ret = NoReturn
    /\ lastMarkAt = ZeroTime
    /\ resetSince = FALSE
    /\ resp = NoResponse
    /\ primaryFailedAt = ZeroTime
    /\ inflight = [t \in Tasks |-> IdleTask]
    /\ HealthCheckerInit

policyVars == <<fleetVars, costVars, failoverVars, metrics, histVars, srvVars>>

\* HealthChecker.Start: wg.Add(1) and go hc.run().
Start ==
    /\ ~panicked
    /\ runPc = "notStarted"
    /\ wg' = wg + 1
    /\ runPc' = "initial"
    /\ ret' = NoReturn
    /\ UNCHANGED <<policyVars, healthy, now, healthInfo, hcMetrics, metricsMutex, cycle,
                   probe, stopChan, stopPc, panicked, cyclesBegun, doneChecks,
                   startedLast, latestOutcome>>

\* checkAllProviders up to wg.Wait(): the snapshot under the read lock, and
\* one goroutine for each provider of the snapshot, taken with its first
\* statement, start := time.Now().
beginCycle(c) ==
    /\ (cyclesBegun["timer"] + cyclesBegun["force"] + 1) * Cardinality(providers)
          <= MaxProbes
    /\ mutexFree(metricsMutex)
    /\ cycle' = [cycle EXCEPT ![c] = [pc |-> "probing", startedAt |-> now,
                                      snapshot |-> hcProviders, allOk |-> TRUE]]
    /\ probe' = [probe EXCEPT ![c] =
                    [p \in providers |->
                        IF p \in hcProviders
                        THEN [NoProbe EXCEPT !.pc = "started", !.start = now]
                        ELSE NoProbe]]
    /\ startedLast' = [p \in providers |->
                          IF p \in hcProviders THEN c ELSE startedLast[p]]
    /\ cyclesBegun' = [cyclesBegun EXCEPT ![c] = @ + 1]

\* run: the initial check, or the check of a ticker tick.
RunCheck ==
    /\ ~panicked
    /\ runPc \in {"initial", "select"}
    /\ cyclesBegun["timer"] < MaxTimerCycles
    /\ beginCycle("timer")
    /\ runPc' = "checking"
    /\ ret' = NoReturn
    /\ UNCHANGED <<policyVars, healthy, now, healthInfo, hcMetrics, metricsMutex,
                   stopChan, wg, stopPc, panicked, doneChecks, latestOutcome>>

\* ForceHealthCheck, called by a handler at any time.
ForceHealthCheck ==
    /\ ~panicked
    /\ cycle["force"].pc = "idle"
    /\ cyclesBegun["force"] < MaxForceCalls
    /\ beginCycle("force")
    /\ ret' = NoReturn
    /\ UNCHANGED <<policyVars, healthy, now, healthInfo, hcMetrics, metricsMutex, runPc,
                   stopChan, wg, stopPc, panicked, doneChecks, latestOutcome>>

\* checkProvider: provider.GetModels() returns, with or without an error,
\* and latency := time.Since(start).
GetModelsReturns ==
    /\ ~panicked
    /\ \E c \in Cycles, p \in providers, ok \in BOOLEAN :
          /\ probe[c][p].pc = "started"
          /\ probe' = [probe EXCEPT ![c][p] =
                          [@ EXCEPT !.pc = "answered", !.ok = ok,
                                    !.latency = now - probe[c][p].start]]
          /\ cycle' = [cycle EXCEPT ![c].allOk = @ /\ ok]
          /\ latestOutcome' =
                IF startedLast[p] = c
                THEN [latestOutcome EXCEPT ![p] =
                         [ok |-> ok, latency |-> now - probe[c][p].start,
                          err |-> IF ok THEN "" ELSE ProbeError]]
                ELSE latestOutcome
    /\ ret' = NoReturn
    /\ UNCHANGED <<policyVars, healthy, now, healthInfo, hcMetrics, metricsMutex, runPc,
                   stopChan, wg, stopPc, panicked, cyclesBegun, doneChecks, startedLast>>

\* checkProvider: hc.metricsMutex.Lock() and metrics := hc.metrics[name].
LockMetrics ==
    /\ ~panicked
    /\ \E c \in Cycles, p \in providers :
          /\ probe[c][p].pc = "answered"
          /\ mutexFree(metricsMutex)
          /\ metricsMutex' = <<c, p>>
          /\ probe' = [probe EXCEPT ![c][p] =
                          [@ EXCEPT !.pc = "locked", !.loaded = loadMetrics(hcMetrics, p)]]
    /\ ret' = NoReturn
    /\ UNCHANGED <<policyVars, healthy, now, healthInfo, hcMetrics, cycle, runPc,
                   stopChan, wg, stopPc, panicked, cyclesBegun, doneChecks,
                   startedLast, latestOutcome>>

\* checkProvider: the counters, LastCheck and LastLatency, and SetHealth on
\* the provider.
CountCheck ==
    /\ ~panicked
    /\ \E c \in Cycles, p \in providers :
          LET g == probe[c][p]
          IN  /\ g.pc = "locked"
              /\ hcMetrics' = storeMetrics(hcMetrics, p,
                                  counted(loadMetrics(hcMetrics, p), g.loaded, g.ok,
                                          g.latency, now))
              /\ healthy' = [healthy EXCEPT ![p] = g.ok]
              /\ healthInfo' = [healthInfo EXCEPT ![p] =
                                   [Latency |-> g.latency, LastCheck |-> now,
                                    Error |-> IF g.ok THEN "" ELSE ProbeError]]
              /\ probe' = [probe EXCEPT ![c][p] = [@ EXCEPT !.pc = "counted"]]
    /\ ret' = NoReturn
    /\ UNCHANGED <<policyVars, now, metricsMutex, cycle, runPc, stopChan, wg, stopPc,
                   panicked, cyclesBegun, doneChecks, startedLast, latestOutcome>>

\* checkProvider: the uptime, the average latency, metricsMutex.Unlock(),
\* and the goroutine's wg.Done().
FinishCheck ==
    /\ ~panicked
    /\ \E c \in Cycles, p \in providers :
          LET g == probe[c][p]
          IN  /\ g.pc = "counted"
              /\ hcMetrics' = [hcMetrics EXCEPT ![p] =
                                  [@ EXCEPT !.Uptime = uptimeOf(hcMetrics[p]),
                                            !.AverageLatency =
                                                averageOf(hcMetrics[p], g.latency)]]
              /\ metricsMutex' = NoHolder
              /\ probe' = [probe EXCEPT ![c][p] = [NoProbe EXCEPT !.pc = "done"]]
              /\ doneChecks' = [doneChecks EXCEPT ![p] =
                                   [k |-> @.k + 1, s |-> @.s + (IF g.ok THEN 1 ELSE 0)]]
    /\ ret' = NoReturn
    /\ UNCHANGED <<policyVars, healthy, now, healthInfo, cycle, runPc, stopChan, wg,
                   stopPc, panicked, cyclesBegun, startedLast, latestOutcome>>

\* checkAllProviders: wg.Wait() returns once every goroutine of the cycle is
\* done, and the cycle's caller goes on.
CycleDone ==
    /\ ~panicked
    /\ \E c \in Cycles :
          /\ cycle[c].pc = "probing"
          /\ \A p \in cycle[c].snapshot : probe[c][p].pc = "done"
          /\ cycle' = [cycle EXCEPT ![c] = IdleCycle]
          /\ probe' = [probe EXCEPT ![c] = [p \in providers |-> NoProbe]]
          /\ runPc' = IF c = "timer" THEN "select" ELSE runPc
          /\ ret' = Called("checkAllProviders", "", <<c>>,
                           [startedAt |-> cycle[c].startedAt,
                            snapshot |-> cycle[c].snapshot,
                            allOk |-> cycle[c].allOk])
    /\ UNCHANGED <<policyVars, healthy, now, healthInfo, hcMetrics, metricsMutex,
                   stopChan, wg, stopPc, panicked, cyclesBegun, doneChecks,
                   startedLast, latestOutcome>>

\* run: the select takes the closed stopChan, and the deferred wg.Done().
RunReturns ==
    /\ ~panicked
    /\ runPc = "select"
    /\ stopChan = "closed"
    /\ runPc' = "returned"
    /\ wg' = wg - 1
    /\ ret' = NoReturn
    /\ UNCHANGED <<policyVars, healthy, now, healthInfo, hcMetrics, metricsMutex, cycle,
                   probe, stopChan, stopPc, panicked, cyclesBegun, doneChecks,
                   startedLast, latestOutcome>>

\* HealthChecker.Stop: close(hc.stopChan), which panics on a closed channel.
Stop ==
    /\ ~panicked
    /\ stopPc \in {"idle", "returned"}
    /\ IF stopChan = "closed"
       THEN /\ panicked' = TRUE
            /\ UNCHANGED <<stopChan, stopPc>>
       ELSE /\ stopChan' = "closed"
            /\ stopPc' = "waiting"
            /\ UNCHANGED panicked
    /\ ret' = NoReturn
    /\ UNCHANGED <<policyVars, healthy, now, healthInfo, hcMetrics, metricsMutex, cycle,
                   probe, runPc, wg, cyclesBegun, doneChecks, startedLast,
                   latestOutcome>>

\* HealthChecker.Stop: hc.wg.Wait() returns, and Stop with it.
StopReturns ==
    /\ ~panicked
    /\ stopPc = "waiting"
    /\ wg = 0
    /\ stopPc' = "returned"
    /\ ret' = Called("Stop", "", <<>>, <<>>)
    /\ UNCHANGED <<policyVars, healthy, now, healthInfo, hcMetrics, metricsMutex, cycle,
                   probe, runPc, stopChan, wg, panicked, cyclesBegun, doneChecks,
                   startedLast, latestOutcome>>

HealthNext ==
    \/ Start
    \/ RunCheck
    \/ ForceHealthCheck
    \/ GetModelsReturns
    \/ LockMetrics
    \/ CountCheck
    \/ FinishCheck
    \/ CycleDone
    \/ RunReturns
    \/ Stop
    \/ StopReturns
    \/ Tick

HealthSpec == HealthInit /\ [][HealthNext]_vars

(***************************************************************************)
(* The health monitor's metrics and health records                         *)
(***************************************************************************)
\* A checkProvider goroutine of p is between metricsMutex.Lock() and
\* metricsMutex.Unlock().
midUpdate(p) == \E c \in Cycles : probe[c][p].pc \in {"locked", "counted"}

Hundred == Rat(100, 1)

\* C16: whenever no check of a provider is in the middle of its update, the
\* provider's uptime is not negative, not above 100, and, once a check has
\* been counted, equal to successfulChecks / totalChecks * 100.
C16_UptimeIsSuccessRatio ==
    \A p \in providers :
        ~midUpdate(p) =>
            LET m == hcMetrics[p]
            IN  /\ RLeq(RZero, m.Uptime)
                /\ RLeq(m.Uptime, Hundred)
                /\ m.TotalChecks > 0 =>
                       m.Uptime = Rat(m.SuccessfulChecks * 100, m.TotalChecks)

\* Three successful checks and one failed check of a provider: uptime 75.
C16_Witness ==
    \E p \in providers :
        /\ ~midUpdate(p)
        /\ hcMetrics[p].SuccessfulChecks = 3
        /\ hcMetrics[p].FailedChecks = 1
        /\ hcMetrics[p].TotalChecks = 4
        /\ hcMetrics[p].Uptime = Rat(75, 1)

\* C17: no check is lost: whenever no check of a provider is in the middle
\* of its update, the provider's counters are those of its completed checks,
\* k in all and s of them successful: totalChecks = k, successfulChecks = s,
\* failedChecks = k - s, the run loop's cycles and the ForceHealthCheck
\* cycles interleaved in any way.
C17_NoLostMetricUpdate ==
    \A p \in providers :
        ~midUpdate(p) =>
            /\ hcMetrics[p].TotalChecks = doneChecks[p].k
            /\ hcMetrics[p].SuccessfulChecks = doneChecks[p].s
            /\ hcMetrics[p].FailedChecks = doneChecks[p].k - doneChecks[p].s

\* A cycle of the run loop and a ForceHealthCheck cycle, both still open,
\* have each completed a check of the same provider, one of the two failed.
C17_Witness ==
    \E p \in providers :
        /\ \A c \in Cycles : cycle[c].pc = "probing" /\ probe[c][p].pc = "done"
        /\ doneChecks[p] = [k |-> 2, s |-> 1]
        /\ hcMetrics[p].TotalChecks = 2
        /\ hcMetrics[p].SuccessfulChecks = 1
        /\ hcMetrics[p].FailedChecks = 1

\* No checkProvider goroutine of p is running.
noProbeInFlight(p) == \A c \in Cycles : probe[c][p].pc \in {"none", "done"}

\* C18: whenever no probe of a provider is in flight, the provider's health
\* record (healthy, latency, error) is the outcome of its latest probe, the
\* one that started last; a probe that started earlier and finished later
\* has not overwritten it.
C18_HealthReflectsLatestProbe ==
    \A p \in providers :
        (startedLast[p] # "none" /\ noProbeInFlight(p)) =>
            /\ healthy[p] = latestOutcome[p].ok
            /\ healthInfo[p].Latency = latestOutcome[p].latency
            /\ healthInfo[p].Error = latestOutcome[p].err

\* checkAllProviders has just returned, to the run loop or to
\* ForceHealthCheck.
CycleFinished == ret.op = "checkAllProviders"

\* Every provider of the finished cycle's snapshot was checked no earlier
\* than the cycle began.
checkedSinceStart ==
    \A p \in ret.before.snapshot :
        /\ healthInfo[p].LastCheck >= ret.before.startedAt
        /\ hcMetrics[p].LastCheck >= ret.before.startedAt

\* Every probe of the finished cycle succeeded, several providers probed,
\* and every one of them is recorded healthy.
allSuccessAllHealthy ==
    (ret.before.allOk /\ Cardinality(ret.before.snapshot) >= 2) =>
        \A p \in ret.before.snapshot : healthy[p]

\* C19: when a probe cycle finishes, every provider of its snapshot has a
\* last-checked time no older than the cycle's start, and if the cycle's
\* probes of several providers all succeeded, every one of them shows
\* healthy = true.
C19_FinishedCycleProbedItsSnapshot ==
    CycleFinished => (checkedSinceStart /\ allSuccessAllHealthy)

\* HealthChecker.Stop has just returned.
Stopped == ret.op = "Stop"

\* No cycle of caller c is in flight, and none of its checkProvider
\* goroutines is running.
drained(c) ==
    /\ cycle[c].pc = "idle"
    /\ \A p \in providers : probe[c][p].pc = "none"

\* C20: when Stop returns, no probe cycle is in flight and no probe
\* goroutine is still running, neither of the run loop nor of a concurrent
\* ForceHealthCheck.
C20_StopDrainsEveryCycle == Stopped => \A c \in Cycles : drained(c)

(***************************************************************************)
(* Probes that never return.  GetModels takes no context and               *)
(* checkProvider sets no deadline, so a Provider whose GetModels blocks    *)
(* keeps its goroutine inside the call: the probe is "hung".  Fairness:    *)
(* the ticker fires, a call that is not hung returns, the mutex is granted *)
(* and goroutines that can run do run; nothing is assumed of the callers   *)
(* of Start and Stop.                                                      *)
(***************************************************************************)
HangFleet == {"A", "B"}

HangInit ==
    /\ policyType = "failover"
    /\ providers = HangFleet
    /\ kind = [p \in providers |-> DearFaster]
    /\ healthy = [p \in providers |-> TRUE]
    /\ maxLatencyThreshold = DefaultMaxLatencyThreshold
    /\ costWeight = DefaultCostWeight
    /\ latencyWeight = DefaultLatencyWeight
    /\ healthWeight = DefaultHealthWeight
    /\ primaryProvider = "A"
    /\ backupProviders = <<"B">>
    /\ failoverDelay = DefaultFailoverDelay
    /\ lastFailover = ZeroTime
    /\ metrics = NoMetrics
    /\ now = MaxTicks * TickStep
    /\ ret = NoReturn
    /\ lastMarkAt = ZeroTime
    /\ resetSince = FALSE
    /\ resp = NoResponse
    /\ primaryFailedAt = ZeroTime
    /\ inflight = [t \in Tasks |-> IdleTask]
    /\ HealthCheckerInit

\* checkProvider: provider.GetModels() blocks for good.
GetModelsHangs ==
    /\ ~panicked
    /\ \E c \in Cycles, p \in providers :
          /\ probe[c][p].pc = "started"
          /\ probe' = [probe EXCEPT ![c][p] = [@ EXCEPT !.pc = "hung"]]
    /\ ret' = NoReturn
    /\ UNCHANGED <<policyVars, healthy, now, healthInfo, hcMetrics, metricsMutex, cycle,
                   runPc, stopChan, wg, stopPc, panicked, cyclesBegun, doneChecks,
                   startedLast, latestOutcome>>

HangNext ==
    \/ Start
    \/ RunCheck
    \/ GetModelsReturns
    \/ GetModelsHangs
    \/ LockMetrics
    \/ CountCheck
    \/ FinishCheck
    \/ CycleDone
    \/ RunReturns
    \/ Stop
    \/ StopReturns

HangFairness ==
    /\ WF_vars(RunCheck)
    /\ WF_vars(GetModelsReturns)
    /\ WF_vars(LockMetrics)
    /\ WF_vars(CountCheck)
    /\ WF_vars(FinishCheck)
    /\ WF_vars(CycleDone)
    /\ WF_vars(RunReturns)
    /\ WF_vars(StopReturns)

HangSpec == HangInit /\ [][HangNext]_vars /\ HangFairness

\* The run loop's cycle is waiting on a hung probe of a provider other
\* than p.
otherHung(p) ==
    \E q \in providers : q # p /\ probe["timer"][q].pc = "hung"

\* The monitor has been told to stop, or the process is gone.
stopping == stopChan = "closed" \/ panicked

\* C21: a probe that never returns does not stall the monitoring of the
\* other providers: each of them has its result of the current cycle
\* recorded, and is checked again on a later tick (its total-checks counter
\* grows) unless the monitor is stopped.
C21_HungProbeStallsNobodyElse ==
    \A p \in HangFleet :
        /\ (otherHung(p) /\ probe["timer"][p].pc = "started")
               ~> (probe["timer"][p].pc \in {"hung", "done"} \/ panicked)
        /\ (otherHung(p) /\ hcMetrics[p].TotalChecks = 1)
               ~> (hcMetrics[p].TotalChecks >= 2 \/ stopping)

\* C22: a probe that never answers is ended by the probe timeout and
\* recorded as a failed check, so every cycle in flight returns to idle and
\* a Stop that is waiting returns.
C22_HungProbeIsTimedOut ==
    /\ \A c \in Cycles, p \in HangFleet :
           (probe[c][p].pc = "hung")
               ~> ((probe[c][p].pc = "done" /\ ~healthy[p]) \/ panicked)
    /\ \A c \in Cycles :
           (cycle[c].pc = "probing") ~> (cycle[c].pc = "idle" \/ panicked)
    /\ (stopPc = "waiting") ~> (stopPc = "returned" \/ panicked)

(***************************************************************************)
(* Routing while the monitor runs                                          *)
(***************************************************************************)
MonitoredInit ==
    /\ policyType \in {"cost_based", "failover"}
    /\ providers = HangFleet
    /\ kind = [p \in providers |-> IF p = "A" THEN DearFaster ELSE CheapSlower]
    /\ healthy = [p \in providers |-> TRUE]
    /\ maxLatencyThreshold = DefaultMaxLatencyThreshold
    /\ costWeight = DefaultCostWeight
    /\ latencyWeight = DefaultLatencyWeight
    /\ healthWeight = DefaultHealthWeight
    /\ primaryProvider = (IF policyType = "failover" THEN "A" ELSE "")
    /\ backupProviders = (IF policyType = "failover" THEN <<"B">> ELSE <<>>)
    /\ failoverDelay = DefaultFailoverDelay
    /\ lastFailover = ZeroTime
    /\ metrics = NoMetrics
    /\ now = MaxTicks * TickStep
    /\ ret = NoReturn
    /\ lastMarkAt = ZeroTime
    /\ resetSince = FALSE
    /\ resp = NoResponse
    /\ primaryFailedAt = ZeroTime
    /\ inflight = [t \in Tasks |-> IdleTask]
    /\ HealthCheckerInit

IsHealthyReturnsUnderMetricsMutex(p) == mutexFree(metricsMutex)

\* BaseProvider.IsHealthy is "return p.health.Healthy": it takes no lock, so
\* the call returns whatever the monitor is doing.
IsHealthyReturns(p) == TRUE

\* A handler's DecideRoute call, made while the monitor is in any state.
RouteWhileMonitoring ==
    /\ ~panicked
    /\ \A p \in providers : IsHealthyReturns(p)
    /\ (RouteCostBased \/ RouteFailover)

MonitoredNext ==
    \/ HangNext
    \/ RouteWhileMonitoring

MonitoredSpec == MonitoredInit /\ [][MonitoredNext]_vars

FrameNext ==
    \/ ForceHealthCheck
    \/ GetModelsReturns
    \/ LockMetrics
    \/ CountCheck
    \/ FinishCheck
    \/ CycleDone
    \/ HandleUndecodable
    \/ HandleChatCompletion

FrameSpec == MonitoredInit /\ [][FrameNext]_vars

\* The health record of p: BaseProvider.health.
healthRecord(p) == <<healthy[p], healthInfo[p]>>

\* The step is checkProvider's SetHealth on p.
monitorWrites(p) ==
    \E c \in Cycles : probe[c][p].pc = "locked" /\ probe'[c][p].pc = "counted"

\* C24: after construction a provider's health record changes only in the
\* monitor's check of that provider; DecideRoute and handleChatCompletion,
\* whether the execution succeeds or fails, leave every record as it was.
C24_OnlyTheMonitorWritesHealth ==
    [][/\ \A p \in HangFleet : healthRecord(p)' # healthRecord(p) => monitorWrites(p)
       /\ (Routed' \/ resp' # resp) => UNCHANGED <<healthy, healthInfo>>]_vars

\* The handler has answered a request whose execution on the chosen
\* provider failed, and one whose execution succeeded on a fallback, while
\* the monitor had recorded a provider unhealthy.
C24_Witness ==
    /\ Handled
    /\ resp.status = "StatusServiceUnavailable: All providers failed"
    /\ resp.executed # <<>>
    /\ \E p \in providers : ~healthy[p] /\ healthInfo[p].Error = ProbeError
    /\ \E p \in providers : healthy[p] /\ p \in {resp.executed[i] : i \in 1..Len(resp.executed)}

isRetryableError(name) == FALSE

\* The execution on the provider the decision named returned an error.
chosenFailed ==
    /\ Handled
    /\ ret.err = ""
    /\ resp.executed # <<>>
    /\ resp.executed[1] = ret.decision.ProviderName
    /\ ~(resp.status = "StatusOK" /\ resp.provider = ret.decision.ProviderName)

\* C26: a non-retryable execution error propagates at once: when the chosen
\* provider's execution fails with an error tagged non-retryable, no other
\* execution is attempted for the request, on that or any other provider,
\* and the client is answered with the failure.
C26_NonRetryableErrorPropagates ==
    (chosenFailed /\ ~isRetryableError(ret.decision.ProviderName)) =>
        /\ resp.executed = <<ret.decision.ProviderName>>
        /\ resp.status = "StatusServiceUnavailable: All providers failed"

(***************************************************************************)
(* The decision's fields                                                   *)
(***************************************************************************)
\* The candidates the cost-based scoring loop kept for the request decided.
surviving == {n \in getHealthyProviders(providers) : scored(n, ret.req)}

\* Some other surviving candidate is estimated strictly cheaper than the
\* chosen one.
cheaperSurvivor ==
    \E n \in surviving :
        /\ n # Chosen
        /\ RLess(GetCostEstimate(n, ret.req).cost, ret.decision.EstimatedCost)

failoverFlagRight == ret.decision.Fallback <=> (Chosen # primaryProvider)
costBasedFlagRight == ret.decision.Fallback <=> cheaperSurvivor

\* C27: the fallback flag is true exactly when the decision names a
\* provider other than the primary (failover), or a provider that is not
\* the cheapest surviving candidate (cost-based).
C27_FallbackFlagMarksSecondChoice ==
    Decided =>
        IF policyType = "failover" THEN failoverFlagRight ELSE costBasedFlagRight

\* The candidates that ought to survive: healthy, serving the model, with a
\* cost estimate, and with a latency estimate within the ceiling or none.
expectedSurvivors ==
    {n \in providers :
        /\ healthy[n]
        /\ Supports(n, ret.req.Model)
        /\ kind[n].costOk
        /\ kind[n].latencyOk => kind[n].latency <= maxLatencyThreshold}

\* C28: a failed estimate stays with its candidate: a candidate without a
\* cost estimate is not chosen, a candidate without a latency estimate is
\* scored at the ceiling and can be chosen, and cost-based DecideRoute
\* succeeds exactly when a candidate survives, with no other error than
\* "no healthy providers" or "no suitable providers".
C28_FailedEstimateStaysWithCandidate ==
    (Routed /\ policyType = "cost_based" /\ ValidReq) =>
        /\ (ret.err = "") <=> (expectedSurvivors # {})
        /\ ret.err \in {"", ErrNoHealthy, ErrNoSuitable}
        /\ Decided =>
              /\ Chosen \in expectedSurvivors
              /\ ~kind[Chosen].latencyOk =>
                     ret.decision.EstimatedLatency = maxLatencyThreshold

\* The decision names a candidate whose latency estimate failed, scored at
\* the ceiling, after its cost and latency estimates were asked for.
C28_Witness ==
    /\ Decided
    /\ policyType = "cost_based"
    /\ ~kind[Chosen].latencyOk
    /\ ret.decision.EstimatedLatency = maxLatencyThreshold
    /\ <<Chosen, "GetLatencyEstimate">> \in ret.calls

\* The score the loop gave a surviving candidate.
scoreOfSurvivor(n) == providerScore(n, ret.req).score

\* A surviving candidate of the lowest score, and the others.
bestSurvivor ==
    CHOOSE n \in surviving :
        \A m \in surviving : RLeq(scoreOfSurvivor(n), scoreOfSurvivor(m))
otherSurvivors == surviving \ {bestSurvivor}
secondSurvivor ==
    CHOOSE n \in otherSurvivors :
        \A m \in otherSurvivors : RLeq(scoreOfSurvivor(n), scoreOfSurvivor(m))

\* min(1.0, 0.8 + 0.2 * (secondScore - bestScore) / bestScore).
statedConfidence ==
    LET best == scoreOfSurvivor(bestSurvivor)
        second == scoreOfSurvivor(secondSurvivor)
        c == RAdd(Rat(8, 10), RMul(Rat(2, 10), RDiv(RSub(second, best), best)))
    IN  IF RLess(ROne, c) THEN ROne ELSE c

\* C29: the confidence of a cost-based decision is 1.0 with one surviving
\* candidate, and with two or more it is
\* min(1.0, 0.8 + 0.2 * (secondScore - bestScore) / bestScore) on the two
\* lowest scores (a nonzero best score), which is 0.8 for equal scores.
C29_ConfidenceFromTwoLowestScores ==
    (Decided /\ policyType = "cost_based") =>
        IF otherSurvivors = {} THEN ret.decision.Confidence = ROne
        ELSE scoreOfSurvivor(bestSurvivor) # RZero =>
                 ret.decision.Confidence = statedConfidence

(***************************************************************************)
(* The smoothed latency                                                    *)
(***************************************************************************)
\* The step ends a successful check of p, made by the cycle of caller c.
finishesSuccess(c, p) ==
    probe[c][p].pc = "counted" /\ probe[c][p].ok /\ probe'[c][p].pc = "done"

\* avg * 0.9 + latest * 0.1, as a whole time.Duration.
smoothed(avg, latest) == (avg * 9 + latest) \div 10

\* C30: the latency of a provider's first successful check becomes its
\* average outright, and every later successful check moves the average to
\* avg * 0.9 + latest * 0.1; the seeding happens once, also when the
\* average it left, or a smoothed one, is 0.
C30_AverageSeededOnceThenSmoothed ==
    [][\A c \in Cycles, p \in HangFleet :
           (p \in providers /\ finishesSuccess(c, p)) =>
               hcMetrics'[p].AverageLatency =
                   IF hcMetrics[p].SuccessfulChecks = 1
                   THEN probe[c][p].latency
                   ELSE smoothed(hcMetrics[p].AverageLatency, probe[c][p].latency)]_vars

(***************************************************************************)
(* What a failed check writes                                              *)
(***************************************************************************)
\* The step is one of the locked section of a failed check of p, made by
\* the cycle of caller c.
failedCheckStep(c, p) ==
    /\ probe[c][p].pc \in {"locked", "counted"}
    /\ ~probe[c][p].ok
    /\ probe'[c][p].pc # probe[c][p].pc

\* C31: a failed check of a provider adds one to its total and failed
\* checks and records it unhealthy with the error text; it leaves the
\* provider's successful checks and smoothed average latency as they were,
\* and every other provider's metrics and health record too.
C31_FailedCheckFrame ==
    [][\A c \in Cycles, p \in HangFleet :
           (p \in providers /\ failedCheckStep(c, p)) =>
               /\ hcMetrics'[p].SuccessfulChecks = hcMetrics[p].SuccessfulChecks
               /\ hcMetrics'[p].AverageLatency = hcMetrics[p].AverageLatency
               /\ \A q \in providers \ {p} :
                      hcMetrics'[q] = hcMetrics[q] /\ healthRecord(q)' = healthRecord(q)
               /\ probe[c][p].pc = "locked" =>
                      /\ hcMetrics'[p].TotalChecks = hcMetrics[p].TotalChecks + 1
                      /\ hcMetrics'[p].FailedChecks = hcMetrics[p].FailedChecks + 1
                      /\ ~healthy'[p]
                      /\ healthInfo'[p].Error = ProbeError]_vars

(***************************************************************************)
(* Requests routed at the same time.  net/http serves each request on a    *)
(* goroutine of its own, and handleChatCompletion calls DecideRoute of the *)
(* one policy of the server; neither the handler nor the policies take a   *)
(* lock.  A server with two providers and either policy.                   *)
(***************************************************************************)
\* The keys BasePolicy.UpdateMetrics assigns, in the order of its statements.
MetricKeys == <<"last_decision", "last_success", "last_latency">>

nextKey(key) ==
    IF key = MetricKeys[1] THEN MetricKeys[2]
    ELSE IF key = MetricKeys[2] THEN MetricKeys[3]
    ELSE "idle"

\* The goroutine is inside UpdateMetrics, about to assign a key of p.metrics.
writing(t) == inflight[t].pc \in {MetricKeys[i] : i \in 1..Len(MetricKeys)}

\* p.metrics[key] = value.
assignMetric(m, key, decision) ==
    IF key = "last_decision" THEN [m EXCEPT !.set = TRUE, !.last_decision = decision]
    ELSE IF key = "last_success" THEN [m EXCEPT !.set = TRUE, !.last_success = TRUE]
    ELSE [m EXCEPT !.set = TRUE, !.last_latency = 0]

\* DecideRoute up to its call of p.UpdateMetrics: the validation, the reads
\* of the providers and the decision; an error returns at once.
BeginDecideRoute(t) ==
    /\ ~panicked
    /\ inflight[t].pc = "idle"
    /\ \E req \in Requests,
          order \in (IF policyType = "cost_based"
                     THEN Perms(getHealthyProviders(providers)) ELSE {<<>>}) :
          LET r == DecideRoute(req, providers, order)
          IN  IF r.err = ""
              THEN /\ inflight' = [inflight EXCEPT ![t] = [pc |-> MetricKeys[1], r |-> r]]
                   /\ ret' = NoReturn
              ELSE /\ ret' = r
                   /\ UNCHANGED inflight
    /\ UNCHANGED <<resp, primaryFailedAt, hcVars, fleetVars, healthy, costVars,
                   failoverVars, metrics, now, histVars>>

\* One assignment of UpdateMetrics, and after the last the return of
\* DecideRoute.  A map assignment that runs while another goroutine is
\* assigning to the same map is a data race: the runtime either lets it
\* through or ends the process ("concurrent map writes").
WriteMetric(t) ==
    /\ ~panicked
    /\ writing(t)
    /\ \E fatal \in (IF \E u \in Tasks \ {t} : writing(u) THEN BOOLEAN ELSE {FALSE}) :
          IF fatal
          THEN /\ panicked' = TRUE
               /\ ret' = NoReturn
               /\ UNCHANGED <<metrics, inflight>>
          ELSE /\ metrics' = assignMetric(metrics, inflight[t].pc, inflight[t].r.decision)
               /\ inflight' = [inflight EXCEPT ![t] =
                                  IF nextKey(inflight[t].pc) = "idle" THEN IdleTask
                                  ELSE [inflight[t] EXCEPT
                                           !.pc = nextKey(inflight[t].pc)]]
               /\ ret' = IF nextKey(inflight[t].pc) = "idle" THEN inflight[t].r
                         ELSE NoReturn
               /\ UNCHANGED panicked
    /\ UNCHANGED <<resp, primaryFailedAt, fleetVars, healthy, costVars, failoverVars,
                   now, histVars, healthInfo, hcMetrics, metricsMutex, cycle, probe,
                   runPc, stopChan, wg, stopPc, cyclesBegun, doneChecks, startedLast,
                   latestOutcome>>

ConcurrentNext ==
    \/ \E t \in Tasks : BeginDecideRoute(t)
    \/ \E t \in Tasks : WriteMetric(t)

ConcurrentSpec == MonitoredInit /\ [][ConcurrentNext]_vars

\* C32: DecideRoute writes no state of the policy that another request
\* shares: two requests routed at the same time through the one policy are
\* never both writing the policy's data.
C32_NoSharedPolicyWrites ==
    \A t \in Tasks, u \in Tasks : (t # u) => ~(writing(t) /\ writing(u))

(***************************************************************************)
(* Who executes a request                                                  *)
(***************************************************************************)
\* The providers whose CreateChatCompletion the handler called for the most
\* recent request, in the order of the calls.
executed == resp.executed

\* C33: the handler executes a request only on providers that are healthy
\* and support the request's model, those tried after the first execution
\* failed included, and it executes on no provider twice.
C33_ExecutesOnlyOnQualifiedProviders ==
    Handled =>
        /\ \A i \in 1..Len(executed) :
              IsHealthy(executed[i]) /\ Supports(executed[i], ret.req.Model)
        /\ \A i \in 1..Len(executed), j \in 1..Len(executed) :
              (i # j) => executed[i] # executed[j]

(***************************************************************************)
(* The cool-down of the primary                                            *)
(***************************************************************************)
\* The primary is in its cool-down: shouldUsePrimary answers false.
coolingDown == policyType = "failover" /\ ~shouldUsePrimary

\* C34: while the cool-down is active FailoverPolicy.DecideRoute never
\* returns the primary's name, whatever the backup list is, a list that
\* contains the primary included.
C34_PrimaryNotReturnedInCoolDown ==
    (Decided /\ coolingDown) => Chosen # primaryProvider

(***************************************************************************)
(* Map iteration and the cost-based choice                                 *)
(***************************************************************************)
\* The names DecideRoute can return for the request of the most recent call
\* in the present state: one for each order in which the range over the
\* map of healthy providers may visit them.
possibleChoices ==
    {CostBasedDecideRoute(ret.req, providers, order).decision.ProviderName :
        order \in Perms(getHealthyProviders(providers))}

\* C35: CostBasedPolicy.DecideRoute is deterministic: for the same
\* request, providers, health flags, estimates, weights and ceiling it
\* returns the same provider, also when candidates tie on the score.
C35_CostBasedChoiceIsDeterministic ==
    (Decided /\ policyType = "cost_based") => possibleChoices = {Chosen}

(***************************************************************************)
(* RemoveProvider while the monitor runs.  The map operations are taken as *)
(* atomic steps; delete(hc.providers, name) runs outside the mutex.        *)
(***************************************************************************)
ErrMetricsNotFound == "metrics for provider not found"

\* HealthChecker.GetProviderMetrics, by its error.
GetProviderMetrics(name) ==
    IF name \in DOMAIN hcMetrics THEN "" ELSE ErrMetricsNotFound

\* RemoveProvider: delete(hc.providers, name).
DeleteProvider ==
    /\ ~panicked
    /\ removing = ""
    /\ \E name \in hcProviders :
          /\ hcProviders' = hcProviders \ {name}
          /\ removing' = name
    /\ ret' = NoReturn
    /\ UNCHANGED <<policyType, providers, kind, costVars, failoverVars, metrics, histVars,
                   srvVars, healthy, now, hcVars>>

\* RemoveProvider: Lock, delete(hc.metrics, name), Unlock, and the return.
DeleteMetrics ==
    /\ ~panicked
    /\ removing # ""
    /\ mutexFree(metricsMutex)
    /\ hcMetrics' = [q \in DOMAIN hcMetrics \ {removing} |-> hcMetrics[q]]
    /\ removing' = ""
    /\ ret' = Called("RemoveProvider", "", <<removing>>, <<>>)
    /\ UNCHANGED <<policyType, providers, kind, hcProviders, costVars, failoverVars,
                   metrics, histVars, srvVars, healthy, now, healthInfo, metricsMutex,
                   cycle, probe, runPc, stopChan, wg, stopPc, panicked, cyclesBegun,
                   doneChecks, startedLast, latestOutcome>>

RemoveNext ==
    \/ Start
    \/ RunCheck
    \/ ForceHealthCheck
    \/ GetModelsReturns
    \/ LockMetrics
    \/ CountCheck
    \/ FinishCheck
    \/ CycleDone
    \/ DeleteProvider
    \/ DeleteMetrics

RemoveSpec == HealthInit /\ [][RemoveNext]_vars

\* RemoveProvider(name) has returned.
removed(name) == name \in providers \ hcProviders /\ removing # name

\* No checkAllProviders call is in flight.
quiescent == \A c \in Cycles : cycle[c].pc = "idle"

\* C36: RemoveProvider(name) is final: once it has returned and the cycles
\* in flight have finished, the metrics table has no entry for name
\* (GetProviderMetrics answers not found), and no cycle that begins after
\* the return probes name.
C36_RemoveProviderIsFinal ==
    [][\A name \in providers :
          /\ (removed(name)' /\ quiescent') =>
                 GetProviderMetrics(name)' = ErrMetricsNotFound
          /\ removed(name) =>
                 \A c \in Cycles :
                     (cycle[c].pc = "idle" /\ cycle'[c].pc = "probing") =>
                         name \notin cycle'[c].snapshot]_vars

(***************************************************************************)
(* Cycles at the same time                                                 *)
(***************************************************************************)
\* The checkAllProviders calls that are between their snapshot and the
\* return of their wg.Wait().
probingCycles == {c \in Cycles : cycle[c].pc = "probing"}

\* The checkProvider goroutines of p that have started and not returned.
probesInFlight(p) ==
    {c \in Cycles : probe[c][p].pc \notin {"none", "done"}}

\* C37: probe cycles do not overlap: at any time at most one cycle is
\* probing and at most one probe of a given provider is in flight, however
\* the timer loop and ForceHealthCheck interleave.
C37_CyclesDoNotOverlap ==
    /\ Cardinality(probingCycles) <= 1
    /\ \A p \in providers : Cardinality(probesInFlight(p)) <= 1

(***************************************************************************)
(* Readers of a health record while SetHealth writes it.  CountCheck is    *)
(* taken apart here: the counters, then the four assignments of SetHealth  *)
(* one by one; BaseProvider has no lock and the readers take none.         *)
(***************************************************************************)
\* The fields SetHealth assigns, in the order of its statements.
HealthFields == <<"Healthy", "Latency", "LastCheck", "Error">>

nextField(f) ==
    IF f = HealthFields[1] THEN HealthFields[2]
    ELSE IF f = HealthFields[2] THEN HealthFields[3]
    ELSE IF f = HealthFields[3] THEN HealthFields[4]
    ELSE "counted"

\* BaseProvider.GetHealth: a copy of p.health.
GetHealthOf(p) ==
    [Healthy |-> healthy[p], Latency |-> healthInfo[p].Latency,
     LastCheck |-> healthInfo[p].LastCheck, Error |-> healthInfo[p].Error]

\* checkProvider: the counters, LastCheck and LastLatency of the metrics, up
\* to the call of provider.SetHealth.
CountOnly ==
    /\ ~panicked
    /\ \E c \in Cycles, p \in providers :
          LET g == probe[c][p]
          IN  /\ g.pc = "locked"
              /\ hcMetrics' = storeMetrics(hcMetrics, p,
                                  counted(loadMetrics(hcMetrics, p), g.loaded, g.ok,
                                          g.latency, now))
              /\ probe' = [probe EXCEPT ![c][p] =
                              [probe[c][p] EXCEPT !.pc = HealthFields[1]]]
    /\ ret' = NoReturn
    /\ UNCHANGED <<policyVars, healthy, healthInfo, now, metricsMutex, cycle, runPc,
                   stopChan, wg, stopPc, panicked, cyclesBegun, doneChecks,
                   startedLast, latestOutcome>>

\* One assignment of BaseProvider.SetHealth.
SetHealthField ==
    /\ ~panicked
    /\ \E c \in Cycles, p \in providers :
          LET g == probe[c][p]
          IN  /\ g.pc \in {HealthFields[i] : i \in 1..Len(HealthFields)}
              /\ healthy' = IF g.pc = "Healthy" THEN [healthy EXCEPT ![p] = g.ok]
                            ELSE healthy
              /\ healthInfo' =
                    IF g.pc = "Latency"
                    THEN [healthInfo EXCEPT ![p] =
                             [healthInfo[p] EXCEPT !.Latency = g.latency]]
                    ELSE IF g.pc = "LastCheck"
                    THEN [healthInfo EXCEPT ![p] =
                             [healthInfo[p] EXCEPT !.LastCheck = now]]
                    ELSE IF g.pc = "Error"
                    THEN [healthInfo EXCEPT ![p] =
                             [healthInfo[p] EXCEPT
                                 !.Error = IF g.ok THEN "" ELSE ProbeError]]
                    ELSE healthInfo
              /\ probe' = [probe EXCEPT ![c][p] =
                              [probe[c][p] EXCEPT !.pc = nextField(g.pc)]]
    /\ ret' = NoReturn
    /\ UNCHANGED <<policyVars, hcMetrics, now, metricsMutex, cycle, runPc, stopChan, wg,
                   stopPc, panicked, cyclesBegun, doneChecks, startedLast,
                   latestOutcome>>

\* A reader: GetProviderHealth(name), which hands back provider.GetHealth().
GetProviderHealth ==
    /\ ~panicked
    /\ \E name \in hcProviders :
          ret' = Called("GetProviderHealth", "", <<name>>, GetHealthOf(name))
    /\ UNCHANGED <<policyVars, healthy, now, hcVars>>

TornNext ==
    \/ ForceHealthCheck
    \/ GetModelsReturns
    \/ LockMetrics
    \/ CountOnly
    \/ SetHealthField
    \/ FinishCheck
    \/ CycleDone
    \/ GetProviderHealth

TornSpec == HealthInit /\ [][TornNext]_vars

\* A record as one SetHealth call of the monitor leaves it, or as
\* NewBaseProvider made it: healthy exactly when there is no error text.
wholeRecord(h) == h.Healthy <=> h.Error = ""

\* C38: a health record is read atomically: a reader that runs while
\* SetHealth writes the record never sees it partially written.
C38_ReaderSeesWholeRecord ==
    ret.op = "GetProviderHealth" => wholeRecord(ret.before)

(***************************************************************************)
(* Stop, again                                                             *)
(***************************************************************************)
\* A Stop call did not return: its close(hc.stopChan) found the channel
\* closed and panicked.
stopPanicked == panicked /\ stopChan = "closed"

\* C39: HealthChecker.Stop is safe in any state: called before Start, after
\* Start or a second time, every call returns normally.
C39_StopIsSafeInAnyState == ~stopPanicked

====
